---- MODULE Spec2Model ----
(***************************************************************************)
(* Token vending machine: the credential issuance pipeline of              *)
(* actions/get-azure-blob-token/index.js (blob storage) and of the         *)
(* document-database issuer exercised by test/lib/impl/AzureCosmosTVM.test *)
(* Strings are sequences: a namespace is a sequence of code points, a      *)
(* container name a sequence of characters, a message a sequence of words. *)
(***************************************************************************)
EXTENDS Naturals, Sequences, FiniteSets, TLC

VARIABLES
    whitelist,       \* params.whitelist, split at the commas (default final param)
    expiryDuration,  \* params.expiryDuration (default final param)
    req,             \* one record per request slot: position, inputs, calls made, response
    containers,      \* blob storage account: the containers that exist
    users,           \* document database: ids of the users that exist
    permissions,     \* document database: the permission records that exist
    tokens,          \* number of resource tokens the document database has minted
    started          \* number of requests started so far

vars == <<whitelist, expiryDuration, req, containers, users, permissions, tokens, started>>

----------------------------------------------------------------------------
(* Bounds and input pools *)

\* total number of requests the two slots may start
MaxRequests == 2

\* longest namespace of the universe the resource names are compared over
MaxNsLen == 3

Reqs == {"r1", "r2"}

Backends == {"blob", "cosmos"}

\* "abc", "abd", the too short "ab" and 'a'.repeat(50)
NsABC == <<97, 98, 99>>
NsABD == <<97, 98, 100>>
NsAB == <<97, 98>>
NsLong == [i \in 1..50 |-> 97]
Namespaces == {NsABC, NsABD, NsAB, NsLong}

\* the credential of "abc", the credential of "abd", and one no namespace owns
Auths == {"auth1", "auth2", "badauth"}

\* what the identity authority knows: which credential belongs to which namespace
Authority == {<<NsABC, "auth1">>, <<NsABD, "auth2">>}

\* "*"
Star == <<42>>

\* WHITELIST=* and WHITELIST=abc
Whitelists == {<<Star>>, <<NsABC>>}

\* expiryDuration as it is configured: '900', '3600', '1e3' and 'abc'; a number
\* is written as the string it converts to
Dur900 == <<"9", "0", "0">>
Dur3600 == <<"3", "6", "0", "0">>
DurExp == <<"1", "e", "3">>
DurNaN == <<"a", "b", "c">>
Durations == {Dur900, Dur3600, DurExp, DurNaN}

\* the times new Date() answers with, in seconds: midnight and 100 s before
\* the next
Times == {0, 86300}

\* the shape of the incoming params object: every key of the schema and no
\* other; one required key absent; one unknown key; one unknown key that
\* starts with __ow_
Shapes == {"ok", "missing", "extra", "owExtra"}

\* the params objects requests arrive with: the well-formed ones of "abc" and
\* "abd" under every credential, and objects with one or two defects
ParamsPool ==
    {[owNamespace |-> ns, owAuth |-> auth, shape |-> "ok"] :
        ns \in {NsABC, NsABD}, auth \in Auths}
    \cup {[owNamespace |-> ns, owAuth |-> "auth1", shape |-> "ok"] : ns \in {NsAB, NsLong}}
    \cup {[owNamespace |-> NsABD, owAuth |-> "auth2", shape |-> shape] :
            shape \in Shapes \ {"ok"}}
    \cup {[owNamespace |-> NsAB, owAuth |-> "auth1", shape |-> "extra"]}

----------------------------------------------------------------------------
(* Texts *)

TxtUnauthorized == <<"unauthorized", "request">>
TxtServerError == <<"server", "error">>
TxtNamespaceTooShort == <<"namespace", "must", "be", ">=", "3", "chars">>
TxtJoiRequired == <<"child", "is", "required">>
TxtJoiNotAllowed == <<"child", "is", "not", "allowed">>
TxtJoiNotNumber == <<"child", "must", "be", "a", "number">>
MsgBlobError == <<"an", "azure", "blob", "error">>
MsgCosmosError == <<"a", "cosmos", "error">>
MsgTypeError == <<"Cannot", "read", "property", "Code", "of", "undefined">>

\* text contains msg as a contiguous part
TextContains(text, msg) ==
    \E i \in 0..Len(text) :
        /\ i + Len(msg) <= Len(text)
        /\ \A j \in 1..Len(msg) : text[i + j] = msg[j]

----------------------------------------------------------------------------
(* Resource names *)

HexDigits == <<"0", "1", "2", "3", "4", "5", "6", "7", "8", "9", "a", "b", "c", "d", "e", "f">>

\* the UTF-8 bytes of one code point below 2048
Utf8Bytes(cp) ==
    IF cp < 128 THEN <<cp>> ELSE <<192 + (cp \div 64), 128 + (cp % 64)>>

RECURSIVE Utf8(_)
\* Buffer.from(str, 'utf8')
Utf8(str) ==
    IF str = <<>> THEN <<>> ELSE Utf8Bytes(Head(str)) \o Utf8(Tail(str))

RECURSIVE ToHex(_)
\* buffer.toString('hex'): two lowercase digits per byte
ToHex(bytes) ==
    IF bytes = <<>> THEN <<>>
    ELSE <<HexDigits[(Head(bytes) \div 16) + 1], HexDigits[(Head(bytes) % 16) + 1]>>
             \o ToHex(Tail(bytes))

\* a hex encoding that does not pad a byte below 16 to two digits
RECURSIVE M_ToHexUnpadded(_)
M_ToHexUnpadded(bytes) ==
    IF bytes = <<>> THEN <<>>
    ELSE (IF Head(bytes) < 16
          THEN <<HexDigits[Head(bytes) + 1]>>
          ELSE <<HexDigits[(Head(bytes) \div 16) + 1], HexDigits[(Head(bytes) % 16) + 1]>>)
             \o M_ToHexUnpadded(Tail(bytes))

\* container names from the unpadded encoding
M_containerName(owNamespace) == M_ToHexUnpadded(Utf8(owNamespace))

\* const containerName = Buffer.from(params.owNamespace, 'utf8').toString('hex')
containerName(owNamespace) == ToHex(Utf8(owNamespace))

privateContainerName(owNamespace) == containerName(owNamespace)

PublicSuffix == <<"-", "p", "u", "b", "l", "i", "c">>

publicContainerName(owNamespace) == containerName(owNamespace) \o PublicSuffix

----------------------------------------------------------------------------
(* Responses *)

\* { body: { error: err }, statusCode: status }
errorResponse(err, status) == [body |-> [error |-> err], statusCode |-> status]

\* the status the web action answers with: a response without statusCode is a 200
HttpStatus(response) ==
    IF "statusCode" \in DOMAIN response THEN response.statusCode ELSE 200

CredentialFields == {"sasURLPrivate", "sasURLPublic", "resourceToken"}

HasCredential(response) == (DOMAIN response.body) \cap CredentialFields # {}

----------------------------------------------------------------------------
(* 0. validate params *)

NsMinLen == 3
NsMaxLenCosmos == 49

\* the key of the schema a params object of shape "missing" lacks
KeyOwApihost == <<"o", "w", "A", "p", "i", "h", "o", "s", "t">>

\* the keys a params object may have besides those of the schema
KeyFoo == <<"f", "o", "o">>
KeyOwMethod == <<"_", "_", "o", "w", "_", "m", "e", "t", "h", "o", "d">>

\* the keys of the schema that are absent and the keys that are not of the schema
ParamKeys(shape) ==
    [absent |-> IF shape = "missing" THEN {KeyOwApihost} ELSE {},
     unknown |-> CASE shape = "extra" -> {KeyFoo}
                   [] shape = "owExtra" -> {KeyOwMethod}
                   [] OTHER -> {}]

OwPrefix == <<"_", "_", "o", "w", "_">>

\* /^__ow_.+$/
MatchesOwPattern(key) ==
    /\ Len(key) > Len(OwPrefix)
    /\ SubSeq(key, 1, Len(OwPrefix)) = OwPrefix

Digits == {"0", "1", "2", "3", "4", "5", "6", "7", "8", "9"}

DigitValue(c) == CHOOSE d \in 0..9 : HexDigits[d + 1] = c

RECURSIVE DigitsPrefix(_)
\* the longest prefix of str made of decimal digits
DigitsPrefix(str) ==
    IF str = <<>> \/ Head(str) \notin Digits THEN <<>>
    ELSE <<Head(str)>> \o DigitsPrefix(Tail(str))

RECURSIVE DecimalValue(_)
DecimalValue(digits) ==
    IF digits = <<>> THEN 0
    ELSE 10 * DecimalValue(SubSeq(digits, 1, Len(digits) - 1))
           + DigitValue(digits[Len(digits)])

RECURSIVE Pow10(_)
Pow10(n) == IF n = 0 THEN 1 ELSE 10 * Pow10(n - 1)

\* joi.number() on a string of digits with an optional exponent: <<the number>>,
\* or <<>> when the string is no number
JoiNumber(str) ==
    LET mantissa == DigitsPrefix(str)
        rest == SubSeq(str, Len(mantissa) + 1, Len(str))
        exponent == IF rest = <<>> THEN <<>> ELSE DigitsPrefix(Tail(rest))
    IN
    IF mantissa = <<>> THEN <<>>
    ELSE IF rest = <<>> THEN <<DecimalValue(mantissa)>>
    ELSE IF Head(rest) = "e" /\ exponent # <<>> /\ Len(rest) = 1 + Len(exponent)
         THEN <<DecimalValue(mantissa) * Pow10(DecimalValue(exponent))>>
    ELSE <<>>

\* parseInt(str): the decimal digits str starts with, <<>> for NaN
parseInt(str) ==
    IF DigitsPrefix(str) = <<>> THEN <<>> ELSE <<DecimalValue(DigitsPrefix(str))>>

\* joi.validate(params, schema): <<>> or <<error message>>
JoiValidate(params, duration) ==
    LET keys == ParamKeys(params.shape) IN
    IF JoiNumber(duration) = <<>> THEN <<TxtJoiNotNumber>>
    ELSE IF keys.absent # {} THEN <<TxtJoiRequired>>
    ELSE IF \E key \in keys.unknown : ~MatchesOwPattern(key) THEN <<TxtJoiNotAllowed>>
    ELSE <<>>

\* the length of the namespace is not looked at
M_Validate_NoLengthCheck(backend, params, duration) ==
    LET resParams == JoiValidate(params, duration) IN
    IF resParams # <<>> THEN <<errorResponse(resParams[1], 400)>> ELSE <<>>

\* the response of a request refused by validation, <<>> when the params pass
Validate(backend, params, duration) ==
    LET resParams == JoiValidate(params, duration) IN
    IF resParams # <<>> THEN <<errorResponse(resParams[1], 400)>>
    ELSE IF Len(params.owNamespace) < NsMinLen
         THEN <<errorResponse(TxtNamespaceTooShort, 400)>>
    ELSE IF backend = "cosmos" /\ Len(params.owNamespace) > NsMaxLenCosmos
         THEN <<errorResponse(TxtJoiNotAllowed, 400)>>
    ELSE <<>>

----------------------------------------------------------------------------
(* 1. validate ow credentials, 2. make sure namespace is whitelisted *)

\* utils.validateOWCreds: asks the identity authority; any failure comes back as
\* an error field, never thrown
validateOWCreds(owNamespace, owAuth, reachable) ==
    IF ~reachable THEN [error |-> [message |-> <<"authority", "unreachable">>]]
    ELSE IF <<owNamespace, owAuth>> \in Authority THEN [namespace |-> owNamespace]
    ELSE [error |-> [message |-> <<"invalid", "credentials">>]]

\* utils.isWhitelisted: the wildcard, or exact match with one entry
isWhitelisted(owNamespace, wl) ==
    \/ wl = <<Star>>
    \/ \E i \in DOMAIN wl : wl[i] = owNamespace

VerifyCall(params, resOW) ==
    [op |-> "validateOWCreds", owNamespace |-> params.owNamespace,
     owAuth |-> params.owAuth, resOW |-> resOW,
     res |-> IF "error" \in DOMAIN resOW THEN "error" ELSE "ok"]

WhitelistCall(params, ok) ==
    [op |-> "isWhitelisted", owNamespace |-> params.owNamespace,
     res |-> IF ok THEN "whitelisted" ELSE "notWhitelisted"]

\* the whitelist is never consulted
M_Authorize_NoWhitelist(params, wl, reachable) ==
    LET resOW == validateOWCreds(params.owNamespace, params.owAuth, reachable) IN
    IF "error" \in DOMAIN resOW
    THEN [calls |-> <<VerifyCall(params, resOW)>>, denied |-> TRUE,
          resp |-> errorResponse(TxtUnauthorized, 401)]
    ELSE [calls |-> <<VerifyCall(params, resOW)>>, denied |-> FALSE,
          resp |-> errorResponse(TxtUnauthorized, 401)]

\* the whitelist is consulted first, the identity authority second
M_Authorize_Reordered(params, wl, reachable) ==
    LET ok == isWhitelisted(params.owNamespace, wl)
        resOW == validateOWCreds(params.owNamespace, params.owAuth, reachable) IN
    IF ~ok
    THEN [calls |-> <<WhitelistCall(params, ok)>>, denied |-> TRUE,
          resp |-> errorResponse(TxtUnauthorized, 401)]
    ELSE [calls |-> <<WhitelistCall(params, ok), VerifyCall(params, resOW)>>,
          denied |-> "error" \in DOMAIN resOW,
          resp |-> errorResponse(TxtUnauthorized, 401)]

\* an unreachable authority is reported as a server error
M_Authorize_Unreachable500(params, wl, reachable) ==
    LET resOW == validateOWCreds(params.owNamespace, params.owAuth, reachable)
        ok == isWhitelisted(params.owNamespace, wl) IN
    IF "error" \in DOMAIN resOW
    THEN [calls |-> <<VerifyCall(params, resOW)>>, denied |-> TRUE,
          resp |-> IF reachable THEN errorResponse(TxtUnauthorized, 401)
                   ELSE errorResponse(TxtServerError, 500)]
    ELSE [calls |-> <<VerifyCall(params, resOW), WhitelistCall(params, ok)>>,
          denied |-> ~ok, resp |-> errorResponse(TxtUnauthorized, 401)]

\* main, steps 1 and 2: the calls made, whether the request ends here, and with
\* which response
Authorize(params, wl, reachable) ==
    LET resOW == validateOWCreds(params.owNamespace, params.owAuth, reachable)
        ok == isWhitelisted(params.owNamespace, wl) IN
    IF "error" \in DOMAIN resOW
    THEN [calls |-> <<VerifyCall(params, resOW)>>, denied |-> TRUE,
          resp |-> errorResponse(TxtUnauthorized, 401)]
    ELSE [calls |-> <<VerifyCall(params, resOW), WhitelistCall(params, ok)>>,
          denied |-> ~ok, resp |-> errorResponse(TxtUnauthorized, 401)]

----------------------------------------------------------------------------
(* 3. blob storage: containers *)

\* what a backend call may do: behave, or fail in one of the two ways the unit
\* tests reject with (an Error, an object with an unexpected body code)
BlobOutcomes == {"ok", "error", "unexpected"}

ErrAlreadyExists == [body |-> [Code |-> "ContainerAlreadyExists"]]
ErrPlain(msg) == [message |-> msg]
ErrUnexpectedCode(msg) == [message |-> msg, body |-> [code |-> "UNEXPECTED CODE"]]

\* { access: 'blob', metadata: { namespace } } for the container named privateContainerName
privateContainerOptions(owNamespace) ==
    [access |-> "blob", metadata |-> [namespace |-> owNamespace]]

\* { metadata: { namespace } } for the container named publicContainerName
publicContainerOptions(owNamespace) ==
    [metadata |-> [namespace |-> owNamespace]]

\* the public access level a container is created with
AccessOf(options) ==
    IF "access" \in DOMAIN options THEN options.access ELSE "none"

\* containerURL.create(aborter, options) against the storage account
ContainerCreate(cs, name, options, outcome) ==
    CASE outcome = "error" ->
           [containers |-> cs, err |-> <<ErrPlain(MsgBlobError)>>]
      [] outcome = "unexpected" ->
           [containers |-> cs, err |-> <<ErrUnexpectedCode(MsgBlobError)>>]
      [] OTHER ->
           IF \E c \in cs : c.name = name
           THEN [containers |-> cs, err |-> <<ErrAlreadyExists>>]
           ELSE [containers |->
                    cs \cup {[name |-> name, access |-> AccessOf(options),
                              metadata |-> options.metadata]},
                 err |-> <<>>]

IsAlreadyExists(e) ==
    /\ "body" \in DOMAIN e
    /\ "Code" \in DOMAIN e.body
    /\ e.body.Code = "ContainerAlreadyExists"

\* utils.createContainerIfNotExists: create, and take already-exists as success
createContainerIfNotExists(cs, name, options, outcome) ==
    LET r == ContainerCreate(cs, name, options, outcome) IN
    IF r.err # <<>> /\ IsAlreadyExists(r.err[1])
    THEN [containers |-> r.containers, err |-> <<>>, raw |-> r.err]
    ELSE [containers |-> r.containers, err |-> r.err, raw |-> r.err]

CreateCall(name, options, raw) ==
    [op |-> "containerCreate", name |-> name, options |-> options,
     res |-> IF raw = <<>> THEN "created"
             ELSE IF IsAlreadyExists(raw[1]) THEN "ContainerAlreadyExists"
             ELSE "failed"]

\* already-exists is taken for a failure like any other
M_ProvisionStep_NotIdempotent(cs, name, options, outcome) ==
    LET r == ContainerCreate(cs, name, options, outcome) IN
    [containers |-> r.containers, call |-> CreateCall(name, options, r.err),
     next |-> IF r.err = <<>> THEN "continue" ELSE "throw", err |-> r.err,
     cause |-> r.err]

\* every error of a creation is taken for already-exists
M_ProvisionStep_ErrorsSwallowed(cs, name, options, outcome) ==
    LET r == createContainerIfNotExists(cs, name, options, outcome)
        call == CreateCall(name, options, r.raw) IN
    [containers |-> r.containers, call |-> call,
     next |-> IF r.err = <<>> THEN "continue" ELSE "skip", err |-> <<>>, cause |-> <<>>]

\* one container creation of main with the catch around it: "continue" with the
\* next statement of the try block, "skip" to the statement after the catch, or
\* "throw" err to the outer catch; cause is the error the backend answered with
ProvisionStep(cs, name, options, outcome) ==
    LET r == createContainerIfNotExists(cs, name, options, outcome)
        call == CreateCall(name, options, r.raw) IN
    IF r.err = <<>>
    THEN [containers |-> r.containers, call |-> call, next |-> "continue",
          err |-> <<>>, cause |-> <<>>]
    ELSE IF "body" \notin DOMAIN r.err[1]
    THEN [containers |-> r.containers, call |-> call, next |-> "throw",
          err |-> <<ErrPlain(MsgTypeError)>>, cause |-> r.err]
    ELSE IF IsAlreadyExists(r.err[1])
    THEN [containers |-> r.containers, call |-> call, next |-> "skip",
          err |-> <<>>, cause |-> <<>>]
    ELSE [containers |-> r.containers, call |-> call, next |-> "throw",
          err |-> r.err, cause |-> r.err]

----------------------------------------------------------------------------
(* blob storage: SAS tokens *)

StorageAccount == "fakeAccount"

\* add, read, create, delete, write and list all set
AllPermissions == "racwdl"

\* expiryTime.setSeconds(expiryTime.getSeconds() + params.expiryDuration)
ExpiryTime(now, duration) == now + duration

SecondsPerDay == 86400

\* date.toISOString(): the date and the time of day
toISOString(date) == [date |-> date \div SecondsPerDay, time |-> date % SecondsPerDay]

\* const expiryTime = new Date()
DateCall(now) == [op |-> "newDate", now |-> now, res |-> "ok"]

SasOutcomes == {"ok", "throwFirst", "throwSecond"}

\* azure.generateBlobSASQueryParameters({ permissions, expiryTime, containerName }, key)
SasParams(name, expiryTime) ==
    [permissions |-> AllPermissions, expiryTime |-> expiryTime, containerName |-> name]

SasCall(name, expiryTime, ok) ==
    [op |-> "generateBlobSASQueryParameters", sas |-> SasParams(name, expiryTime),
     res |-> IF ok THEN "generated" ELSE "failed"]

\* `${accountURL}/${containerName}?${sasQueryParams}`
SasURL(name, expiryTime) ==
    [account |-> StorageAccount, container |-> name, sas |-> SasParams(name, expiryTime)]

\* the successful answer of main: no statusCode
BlobResponse(owNamespace, expiryTime) ==
    [body |-> [expiration |-> toISOString(expiryTime),
               sasURLPrivate |-> SasURL(privateContainerName(owNamespace), expiryTime),
               sasURLPublic |-> SasURL(publicContainerName(owNamespace), expiryTime)]]

\* the message of the caught error is sent to the caller
M_ServerError_Echo(e) == errorResponse(e.message, 500)

\* catch (e) { console.error(e); return errorResponse('server error', 500) }
ServerError(e) == errorResponse(TxtServerError, 500)

----------------------------------------------------------------------------
(* document database: user and permission lifecycle *)

CosmosOutcomes == {"ok", "error"}

CosmosAccount == "fakeAccount"
DatabaseId == "fakeDBId"
ContainerId == "fakeContainerId"
ContainerUrl == "https://fakecontainerURL.com"
PermissionId == "permission"
MsgConflict == <<"conflict">>

MsgNotFound == <<"not", "found">>
ErrNotFound == [code |-> 404, message |-> MsgNotFound]
ErrConflict == [code |-> 409, message |-> MsgConflict]

IsNotFound(e) == "code" \in DOMAIN e /\ e.code = 404

\* the stable per-namespace user id and the partition key: the hex name
partitionKey(owNamespace) == containerName(owNamespace)

\* database.user(id).read()
UserRead(us, id, outcome) ==
    IF outcome = "error" THEN <<ErrPlain(MsgCosmosError)>>
    ELSE IF id \in us THEN <<>> ELSE <<ErrNotFound>>

\* database.users.create({ id })
UsersCreate(us, id, outcome) ==
    IF outcome = "error" THEN [users |-> us, err |-> <<ErrPlain(MsgCosmosError)>>]
    ELSE IF id \in us THEN [users |-> us, err |-> <<ErrConflict>>]
    ELSE [users |-> us \cup {id}, err |-> <<>>]

\* user.permission(id).delete()
PermissionDelete(ps, user, outcome) ==
    IF outcome = "error" THEN [permissions |-> ps, err |-> <<ErrPlain(MsgCosmosError)>>]
    ELSE IF \E p \in ps : p.user = user /\ p.def.id = PermissionId
    THEN [permissions |-> {p \in ps : ~(p.user = user /\ p.def.id = PermissionId)},
          err |-> <<>>]
    ELSE [permissions |-> ps, err |-> <<ErrNotFound>>]

\* user.permissions.create(def, { resourceTokenExpirySeconds }): mints a new token
PermissionsCreate(ps, user, def, options, minted, outcome) ==
    IF outcome = "error"
    THEN [permissions |-> ps, err |-> <<ErrPlain(MsgCosmosError)>>, token |-> 0]
    ELSE IF \E p \in ps : p.user = user /\ p.def.id = def.id
    THEN [permissions |-> ps, err |-> <<ErrConflict>>, token |-> 0]
    ELSE [permissions |-> ps \cup {[user |-> user, def |-> def, options |-> options,
                                    token |-> minted + 1]},
          err |-> <<>>, token |-> minted + 1]

\* step 2: after the lookup of the user
AfterUserRead(err) ==
    IF err = <<>> THEN "permissionDelete"
    ELSE IF IsNotFound(err[1]) THEN "usersCreate"
    ELSE "throw"

\* step 2: after the creation of the user
AfterUsersCreate(err) ==
    IF err = <<>> THEN "permissionDelete" ELSE "throw"

\* a permission that is not there to delete ends the request
M_AfterPermissionDelete_NotFoundFatal(err) ==
    IF err = <<>> THEN "permissionsCreate" ELSE "throw"

\* step 3: after the deletion of the permission; not-found is ignored
AfterPermissionDelete(err) ==
    IF err = <<>> \/ IsNotFound(err[1]) THEN "permissionsCreate" ELSE "throw"

\* a permission on the whole container, with no partition key
M_permissionDefinition_NoPartition(owNamespace) ==
    [id |-> PermissionId, permissionMode |-> "All", resource |-> ContainerUrl,
     resourcePartitionKey |-> <<>>]

\* step 4: { id, permissionMode: All, resource: container.url, resourcePartitionKey: [partitionKey] }
permissionDefinition(owNamespace) ==
    [id |-> PermissionId, permissionMode |-> "All", resource |-> ContainerUrl,
     resourcePartitionKey |-> <<partitionKey(owNamespace)>>]

\* step 5: the successful answer
CosmosResponse(owNamespace, expiryTime, token) ==
    [statusCode |-> 200,
     body |-> [databaseId |-> DatabaseId, containerId |-> ContainerId,
               expiration |-> toISOString(expiryTime), partitionKey |-> partitionKey(owNamespace),
               resourceToken |-> token, endpoint |-> CosmosAccount]]

\* an unexpected backend error: 500 with the message of the error
CosmosServerError(e) == errorResponse(<<"server", "error:">> \o e.message, 500)

CosmosCall(op, res, detail) ==
    [op |-> op, res |-> IF res = <<>> THEN "ok"
                        ELSE IF IsNotFound(res[1]) THEN "notFound"
                        ELSE IF "code" \in DOMAIN res[1] THEN "conflict"
                        ELSE "failed",
     detail |-> detail]

----------------------------------------------------------------------------
(* State *)

NoResponse == [body |-> [none |-> TRUE], statusCode |-> 0]

IdleRequest ==
    [pc |-> "idle", backend |-> "none",
     params |-> [owNamespace |-> <<>>, owAuth |-> "none", shape |-> "ok"],
     calls |-> <<>>, resp |-> NoResponse, cause |-> <<>>]

Init ==
    /\ whitelist \in Whitelists
    /\ expiryDuration \in Durations
    /\ req = [r \in Reqs |-> IdleRequest]
    /\ containers = {}
    /\ users = {}
    /\ permissions = {}
    /\ tokens = 0
    /\ started = 0

\* the request ends with response resp; cause is the backend error behind it, if any
Answer(r, calls, resp, cause) ==
    req' = [req EXCEPT ![r].pc = "done", ![r].calls = @ \o calls,
                       ![r].resp = resp, ![r].cause = cause]

\* the request goes on at pc
Goto(r, calls, pc) ==
    req' = [req EXCEPT ![r].pc = pc, ![r].calls = @ \o calls]

\* the request has its response resp ready and has not returned it yet
Hold(r, calls, resp) ==
    req' = [req EXCEPT ![r].pc = "return", ![r].calls = @ \o calls, ![r].resp = resp]

----------------------------------------------------------------------------
(* Operations *)

\* a request arrives: 0. validate params
Start(r) ==
    /\ req[r].pc = "idle"
    /\ started < MaxRequests
    /\ started' = started + 1
    /\ \E backend \in Backends, params \in ParamsPool :
         LET refused == Validate(backend, params, expiryDuration) IN
         req' = [req EXCEPT ![r] =
                    [pc |-> IF refused # <<>> THEN "done" ELSE "validateOWCreds",
                     backend |-> backend, params |-> params, calls |-> <<>>,
                     resp |-> IF refused # <<>> THEN refused[1] ELSE NoResponse,
                     cause |-> <<>>]]
    /\ UNCHANGED <<whitelist, expiryDuration, containers, users, permissions, tokens>>

\* 1. validate ow credentials, 2. make sure namespace is whitelisted
VerifyAndAuthorize(r) ==
    /\ req[r].pc = "validateOWCreds"
    /\ \E reachable \in BOOLEAN :
         LET a == Authorize(req[r].params, whitelist, reachable) IN
         IF a.denied THEN Answer(r, a.calls, a.resp, <<>>)
         ELSE Goto(r, a.calls,
                   IF req[r].backend = "blob" THEN "createPrivate" ELSE "userRead")
    /\ UNCHANGED <<whitelist, expiryDuration, containers, users, permissions, tokens, started>>

\* one container creation, after which the request is at pc if all went well
Provision(r, name, options, pc) ==
    \E outcome \in BlobOutcomes :
        LET p == ProvisionStep(containers, name, options, outcome) IN
        /\ containers' = p.containers
        /\ CASE p.next = "continue" -> Goto(r, <<p.call>>, pc)
             [] p.next = "skip" -> Goto(r, <<p.call>>, "generateSAS")
             [] OTHER -> Answer(r, <<p.call>>, ServerError(p.err[1]), p.cause)

\* await utils.createContainerIfNotExists(... privateContainerName ...)
CreatePrivateContainer(r) ==
    /\ req[r].pc = "createPrivate"
    /\ Provision(r, privateContainerName(req[r].params.owNamespace),
                 privateContainerOptions(req[r].params.owNamespace), "createPublic")
    /\ UNCHANGED <<whitelist, expiryDuration, users, permissions, tokens, started>>

\* await utils.createContainerIfNotExists(... publicContainerName ...)
CreatePublicContainer(r) ==
    /\ req[r].pc = "createPublic"
    /\ Provision(r, publicContainerName(req[r].params.owNamespace),
                 publicContainerOptions(req[r].params.owNamespace), "generateSAS")
    /\ UNCHANGED <<whitelist, expiryDuration, users, permissions, tokens, started>>

\* generate SAS token: both tokens, then the response
GenerateSAS(r) ==
    /\ req[r].pc = "generateSAS"
    /\ \E now \in Times, outcome \in SasOutcomes :
         LET ns == req[r].params.owNamespace
             expiryTime == ExpiryTime(now, parseInt(expiryDuration)[1])
             date == DateCall(now)
             first == SasCall(privateContainerName(ns), expiryTime, outcome # "throwFirst")
             second == SasCall(publicContainerName(ns), expiryTime, outcome # "throwSecond")
         IN
         CASE outcome = "throwFirst" ->
                Answer(r, <<date, first>>, ServerError(ErrPlain(MsgBlobError)),
                       <<ErrPlain(MsgBlobError)>>)
           [] outcome = "throwSecond" ->
                Answer(r, <<date, first, second>>, ServerError(ErrPlain(MsgBlobError)),
                       <<ErrPlain(MsgBlobError)>>)
           [] OTHER ->
                Answer(r, <<date, first, second>>, BlobResponse(ns, expiryTime), <<>>)
    /\ UNCHANGED <<whitelist, expiryDuration, containers, users, permissions, tokens, started>>

\* step 2: look the user up
ReadUser(r) ==
    /\ req[r].pc = "userRead"
    /\ \E outcome \in CosmosOutcomes :
         LET id == partitionKey(req[r].params.owNamespace)
             err == UserRead(users, id, outcome)
             call == CosmosCall("userRead", err, id) IN
         IF AfterUserRead(err) = "throw"
         THEN Answer(r, <<call>>, CosmosServerError(err[1]), err)
         ELSE Goto(r, <<call>>, AfterUserRead(err))
    /\ UNCHANGED <<whitelist, expiryDuration, containers, users, permissions, tokens, started>>

\* step 2: create the user that was not found
CreateUser(r) ==
    /\ req[r].pc = "usersCreate"
    /\ \E outcome \in CosmosOutcomes :
         LET id == partitionKey(req[r].params.owNamespace)
             res == UsersCreate(users, id, outcome)
             call == CosmosCall("usersCreate", res.err, id) IN
         /\ users' = res.users
         /\ IF AfterUsersCreate(res.err) = "throw"
            THEN Answer(r, <<call>>, CosmosServerError(res.err[1]), res.err)
            ELSE Goto(r, <<call>>, AfterUsersCreate(res.err))
    /\ UNCHANGED <<whitelist, expiryDuration, containers, permissions, tokens, started>>

\* step 3: delete the permission
DeletePermission(r) ==
    /\ req[r].pc = "permissionDelete"
    /\ \E outcome \in CosmosOutcomes :
         LET id == partitionKey(req[r].params.owNamespace)
             res == PermissionDelete(permissions, id, outcome)
             call == CosmosCall("permissionDelete", res.err, id) IN
         /\ permissions' = res.permissions
         /\ IF AfterPermissionDelete(res.err) = "throw"
            THEN Answer(r, <<call>>, CosmosServerError(res.err[1]), res.err)
            ELSE Goto(r, <<call>>, AfterPermissionDelete(res.err))
    /\ UNCHANGED <<whitelist, expiryDuration, containers, users, tokens, started>>

\* step 4: create the permission; its token goes into the response
CreatePermission(r) ==
    /\ req[r].pc = "permissionsCreate"
    /\ \E now \in Times, outcome \in CosmosOutcomes :
         LET ns == req[r].params.owNamespace
             def == permissionDefinition(ns)
             options == [resourceTokenExpirySeconds |-> parseInt(expiryDuration)[1]]
             res == PermissionsCreate(permissions, partitionKey(ns), def, options,
                                      tokens, outcome)
             call == CosmosCall("permissionsCreate", res.err,
                                [def |-> def, options |-> options]) IN
         /\ permissions' = res.permissions
         /\ tokens' = IF res.err = <<>> THEN res.token ELSE tokens
         /\ IF res.err # <<>>
            THEN Answer(r, <<call>>, CosmosServerError(res.err[1]), res.err)
            ELSE Hold(r, <<call>>,
                      CosmosResponse(ns, ExpiryTime(now, parseInt(expiryDuration)[1]),
                                     res.token))
    /\ UNCHANGED <<whitelist, expiryDuration, containers, users, started>>

\* step 5: the response reaches the caller
ReturnToken(r) ==
    /\ req[r].pc = "return"
    /\ req' = [req EXCEPT ![r].pc = "done"]
    /\ UNCHANGED <<whitelist, expiryDuration, containers, users, permissions, tokens, started>>

\* the response has been sent; the slot takes the next request
Finish(r) ==
    /\ req[r].pc = "done"
    /\ started < MaxRequests
    /\ req' = [req EXCEPT ![r] = IdleRequest]
    /\ UNCHANGED <<whitelist, expiryDuration, containers, users, permissions, tokens, started>>

Next ==
    \E r \in Reqs :
        \/ Start(r)
        \/ VerifyAndAuthorize(r)
        \/ CreatePrivateContainer(r)
        \/ CreatePublicContainer(r)
        \/ GenerateSAS(r)
        \/ ReadUser(r)
        \/ CreateUser(r)
        \/ DeletePermission(r)
        \/ CreatePermission(r)
        \/ ReturnToken(r)
        \/ Finish(r)

Spec == Init /\ [][Next]_vars

----------------------------------------------------------------------------
(* Vocabulary of the properties *)

\* the policy is not the wildcard and ns is none of its entries
NotOnAllowList(ns) ==
    /\ whitelist # <<Star>>
    /\ \A i \in DOMAIN whitelist : whitelist[i] # ns

ProvisionOps == {"containerCreate", "usersCreate"}
MintOps == {"generateBlobSASQueryParameters", "permissionsCreate"}
BackendOps == ProvisionOps \cup MintOps \cup {"userRead", "permissionDelete"}

Ops(q) == {q.calls[i].op : i \in DOMAIN q.calls}

CountOp(q, op) == Cardinality({i \in DOMAIN q.calls : q.calls[i].op = op})

\* the request got past the validation of its params
PassedValidation(q) == q.pc # "idle" /\ ~(q.pc = "done" /\ q.calls = <<>>)

Succeeded(q) == q.pc = "done" /\ HttpStatus(q.resp) = 200

\* the names of the resources the credentials of a response give access to
Resources(resp) ==
    (IF "sasURLPrivate" \in DOMAIN resp.body
     THEN {resp.body.sasURLPrivate.container, resp.body.sasURLPrivate.sas.containerName}
     ELSE {})
    \cup
    (IF "sasURLPublic" \in DOMAIN resp.body
     THEN {resp.body.sasURLPublic.container, resp.body.sasURLPublic.sas.containerName}
     ELSE {})
    \cup
    (IF "resourceToken" \in DOMAIN resp.body THEN {resp.body.partitionKey} ELSE {})

\* hex(ns)
Hex(ns) == ToHex(Utf8(ns))

\* the scope of ns: private container / partition key, and public container
Scope(ns) == {Hex(ns), Hex(ns) \o PublicSuffix}

\* code points with one hex digit (1), two (22, "-", "a") and two bytes (233)
NsAlphabet == {1, 22, 45, 97, 233}

\* every namespace of 1 to MaxNsLen characters over NsAlphabet
NsUniverse == UNION {[1..n -> NsAlphabet] : n \in 1..MaxNsLen}

\* the resource names derived from distinct namespaces are all distinct
DerivedScopesDisjoint ==
    \A n1, n2 \in NsUniverse :
        n1 # n2 =>
            {containerName(n1), publicContainerName(n1)}
                \cap {containerName(n2), publicContainerName(n2)} = {}

----------------------------------------------------------------------------
----------------------------------------------------------------------------
(* C2: every credential a successful request returns is for a resource of the *)
(* scope of the namespace the request authenticated as (hex(N), hex(N) with   *)
(* the -public suffix), and two successful requests authenticated as distinct *)
(* namespaces never get a credential for the same resource.                   *)
C2_ScopesDisjoint ==
    /\ DerivedScopesDisjoint
    /\ \A r1 \in Reqs :
           LET q1 == req[r1] IN
           (Succeeded(q1) /\ HasCredential(q1.resp)) =>
               /\ <<q1.params.owNamespace, q1.params.owAuth>> \in Authority
               /\ Resources(q1.resp) \subseteq Scope(q1.params.owNamespace)
               /\ \A r2 \in Reqs :
                    LET q2 == req[r2] IN
                    (/\ Succeeded(q2) /\ HasCredential(q2.resp)
                     /\ q2.params.owNamespace # q1.params.owNamespace) =>
                        Resources(q1.resp) \cap Resources(q2.resp) = {}

\* "abc" and "abd" both hold credentials: 616263 and 616264
C2_Witness ==
    \E r1, r2 \in Reqs :
        /\ Succeeded(req[r1]) /\ Succeeded(req[r2])
        /\ req[r1].params.owNamespace = NsABC /\ req[r2].params.owNamespace = NsABD
        /\ req[r1].backend = "blob"
        /\ <<"6", "1", "6", "2", "6", "3">> \in Resources(req[r1].resp)
        /\ <<"6", "1", "6", "2", "6", "3">> \o PublicSuffix \in Resources(req[r1].resp)
        /\ <<"6", "1", "6", "2", "6", "4">> \in Resources(req[r2].resp)

----------------------------------------------------------------------------
(* C3: in the calls of one request the allow-list check comes only after an   *)
(* identity verification that succeeded, every backend call comes only after  *)
(* both have succeeded, and every container creation comes before every       *)
(* token generation.                                                          *)
C3_StageOrder ==
    \A r \in Reqs :
        LET c == req[r].calls IN
        \A i \in DOMAIN c :
            /\ c[i].op = "isWhitelisted" =>
                 \E j \in 1..(i - 1) :
                     c[j].op = "validateOWCreds" /\ c[j].res = "ok"
            /\ c[i].op \in BackendOps =>
                 \E j \in 1..(i - 1) : \E k \in (j + 1)..(i - 1) :
                     /\ c[j].op = "validateOWCreds" /\ c[j].res = "ok"
                     /\ c[k].op = "isWhitelisted" /\ c[k].res = "whitelisted"
            /\ c[i].op = "containerCreate" =>
                 \A j \in 1..(i - 1) : c[j].op # "generateBlobSASQueryParameters"

\* a blob request went through all stages
C3_Witness ==
    \E r \in Reqs :
        LET c == req[r].calls IN
        /\ Succeeded(req[r])
        /\ Len(c) = 7
        /\ c[1].op = "validateOWCreds" /\ c[2].op = "isWhitelisted"
        /\ c[3].op = "containerCreate" /\ c[4].op = "containerCreate"
        /\ c[5].op = "newDate"
        /\ c[6].op = "generateBlobSASQueryParameters"
        /\ c[7].op = "generateBlobSASQueryParameters"

----------------------------------------------------------------------------
----------------------------------------------------------------------------
(* C5: a request that names one namespace and presents the valid credential   *)
(* of another one is answered 403, without a credential.                      *)
CrossNamespace(q) ==
    /\ <<q.params.owNamespace, q.params.owAuth>> \notin Authority
    /\ \E ns \in Namespaces :
         ns # q.params.owNamespace /\ <<ns, q.params.owAuth>> \in Authority

C5_CrossNamespace403 ==
    \A r \in Reqs :
        LET q == req[r] IN
        (/\ q.pc = "done" /\ PassedValidation(q) /\ CrossNamespace(q)
         /\ q.calls[1].resOW = validateOWCreds(q.params.owNamespace, q.params.owAuth, TRUE)) =>
            /\ HttpStatus(q.resp) = 403
            /\ ~HasCredential(q.resp)

----------------------------------------------------------------------------
(* C6: a blob request none of whose calls failed otherwise than with         *)
(* already-exists is never ended by its container creations: it goes on to   *)
(* token generation and, once done, has status 200 and both SAS URLs.        *)
CreatesOf(q) == {i \in DOMAIN q.calls : q.calls[i].op = "containerCreate"}

OnlyBenignSignals(q) == \A i \in DOMAIN q.calls : q.calls[i].res # "failed"

C6_ProvisioningIdempotent ==
    \A r \in Reqs :
        LET q == req[r] IN
        (q.backend = "blob" /\ CreatesOf(q) # {} /\ OnlyBenignSignals(q)) =>
            /\ q.pc \in {"createPublic", "generateSAS", "done"}
            /\ q.pc = "done" =>
                 /\ HttpStatus(q.resp) = 200
                 /\ {"sasURLPrivate", "sasURLPublic"} \subseteq DOMAIN q.resp.body

\* both containers existed already, and the request has its two SAS URLs
C6_Witness ==
    \E r \in Reqs :
        LET q == req[r] IN
        /\ q.backend = "blob" /\ q.pc = "done"
        /\ \E i, j \in CreatesOf(q) :
             /\ q.calls[i].name = privateContainerName(q.params.owNamespace)
             /\ q.calls[j].name = publicContainerName(q.params.owNamespace)
             /\ q.calls[i].res = "ContainerAlreadyExists"
             /\ q.calls[j].res = "ContainerAlreadyExists"
        /\ HttpStatus(q.resp) = 200
        /\ {"sasURLPrivate", "sasURLPublic"} \subseteq DOMAIN q.resp.body

----------------------------------------------------------------------------
(* C7: a blob request that is past provisioning has attempted the creation   *)
(* of the private container hex(N) and of the public container hex(N)-public *)
(* exactly once each, both with metadata { namespace: N }, the public one    *)
(* with public read access ('blob') and the private one with no access       *)
(* option.                                                                   *)
C7_ContainersCreatedOnceWithAccess ==
    \A r \in Reqs :
        LET q == req[r]
            ns == q.params.owNamespace
            private == {i \in CreatesOf(q) : q.calls[i].name = Hex(ns)}
            public == {i \in CreatesOf(q) : q.calls[i].name = Hex(ns) \o PublicSuffix}
        IN
        (q.backend = "blob" /\ (q.pc = "generateSAS" \/ Succeeded(q))) =>
            /\ Cardinality(private) = 1
            /\ Cardinality(public) = 1
            /\ CreatesOf(q) = private \cup public
            /\ \A i \in CreatesOf(q) : q.calls[i].options.metadata = [namespace |-> ns]
            /\ \A i \in private : "access" \notin DOMAIN q.calls[i].options
            /\ \A i \in public :
                 /\ "access" \in DOMAIN q.calls[i].options
                 /\ q.calls[i].options.access = "blob"

----------------------------------------------------------------------------
----------------------------------------------------------------------------
(* C9: a document-database request that succeeded created the user exactly   *)
(* once if the lookup answered not-found and not at all if it found the      *)
(* user; it deleted the permission exactly once, before creating it; and a   *)
(* deletion that answers not-found never ends a request: permission creation *)
(* comes next.                                                               *)
IndexOf(q, op) == CHOOSE i \in DOMAIN q.calls : q.calls[i].op = op

C9_UserAndPermissionLifecycle ==
    \A r \in Reqs :
        LET q == req[r] IN
        /\ (q.backend = "cosmos" /\ Succeeded(q)) =>
             /\ CountOp(q, "userRead") = 1
             /\ q.calls[IndexOf(q, "userRead")].res \in {"ok", "notFound"}
             /\ CountOp(q, "usersCreate") =
                  (IF q.calls[IndexOf(q, "userRead")].res = "notFound" THEN 1 ELSE 0)
             /\ CountOp(q, "permissionDelete") = 1
             /\ CountOp(q, "permissionsCreate") = 1
             /\ IndexOf(q, "permissionDelete") < IndexOf(q, "permissionsCreate")
        /\ (/\ q.calls # <<>>
            /\ q.calls[Len(q.calls)].op = "permissionDelete"
            /\ q.calls[Len(q.calls)].res = "notFound") =>
             q.pc = "permissionsCreate"

\* one request created its user and found no permission to delete; the other
\* found the user and deleted the permission of the first
C9_Witness ==
    \E r1, r2 \in Reqs :
        LET q1 == req[r1]
            q2 == req[r2] IN
        /\ q1.backend = "cosmos" /\ Succeeded(q1)
        /\ q2.backend = "cosmos" /\ Succeeded(q2)
        /\ q1.calls[IndexOf(q1, "userRead")].res = "notFound"
        /\ CountOp(q1, "usersCreate") = 1
        /\ q1.calls[IndexOf(q1, "permissionDelete")].res = "notFound"
        /\ q2.calls[IndexOf(q2, "userRead")].res = "ok"
        /\ CountOp(q2, "usersCreate") = 0
        /\ q2.calls[IndexOf(q2, "permissionDelete")].res = "ok"

----------------------------------------------------------------------------
(* C10: every permission a document-database request creates for namespace N *)
(* has permission mode All, the container as its resource and the one-element*)
(* partition key list [hex(N)], under every expiry duration; the response    *)
(* returns hex(N) as partitionKey.                                           *)
C10_PermissionScopedToPartition ==
    \A r \in Reqs :
        LET q == req[r] IN
        /\ \A i \in DOMAIN q.calls :
             q.calls[i].op = "permissionsCreate" =>
                 /\ q.calls[i].detail.def.permissionMode = "All"
                 /\ q.calls[i].detail.def.resource = ContainerUrl
                 /\ q.calls[i].detail.def.resourcePartitionKey
                      = <<Hex(q.params.owNamespace)>>
        /\ (q.backend = "cosmos" /\ Succeeded(q)) =>
             q.resp.body.partitionKey = Hex(q.params.owNamespace)
        /\ \A p \in permissions :
             /\ p.def.permissionMode = "All"
             /\ p.def.resource = ContainerUrl
             /\ p.def.resourcePartitionKey = <<p.user>>

\* "abc" holds a token for partition 616263, under each of two durations
C10_Witness ==
    \E r \in Reqs :
        LET q == req[r] IN
        /\ q.backend = "cosmos" /\ Succeeded(q)
        /\ q.params.owNamespace = NsABC
        /\ expiryDuration = Dur3600
        /\ q.resp.body.partitionKey = <<"6", "1", "6", "2", "6", "3">>
        /\ \E p \in permissions :
             /\ p.token = q.resp.body.resourceToken
             /\ p.def.resourcePartitionKey = <<<<"6", "1", "6", "2", "6", "3">>>>
             /\ p.options.resourceTokenExpirySeconds = 3600

----------------------------------------------------------------------------
(* C11: a request with a required parameter missing, with an extra parameter *)
(* that does not start with __ow_, or with a namespace of fewer than 3       *)
(* characters (more than 49 on the document-database backend) is answered    *)
(* 400 and makes no identity-verification call and no backend call.          *)
StartsWithOw(key) == Len(key) >= 5 /\ SubSeq(key, 1, 5) = <<"_", "_", "o", "w", "_">>

Malformed(q) ==
    \/ ParamKeys(q.params.shape).absent # {}
    \/ \E key \in ParamKeys(q.params.shape).unknown : ~StartsWithOw(key)
    \/ Len(q.params.owNamespace) < 3
    \/ q.backend = "cosmos" /\ Len(q.params.owNamespace) > 49

----------------------------------------------------------------------------
(* C12: for every expiryDuration d the validation accepts, a successful blob *)
(* response has expiration equal to the time of the request plus d seconds,  *)
(* and both SAS tokens are generated with that same expiry time.             *)
SasCallsOf(q) ==
    {i \in DOMAIN q.calls : q.calls[i].op = "generateBlobSASQueryParameters"}

\* the time the request read from the clock
RequestTime(q) == q.calls[IndexOf(q, "newDate")].now

C12_ExpirationIsTimePlusDuration ==
    \A r \in Reqs :
        LET q == req[r] IN
        (q.backend = "blob" /\ Succeeded(q) /\ JoiNumber(expiryDuration) # <<>>) =>
            LET expiry == RequestTime(q) + JoiNumber(expiryDuration)[1] IN
            /\ q.resp.body.expiration = toISOString(expiry)
            /\ Cardinality(SasCallsOf(q)) = 2
            /\ \A i \in SasCallsOf(q) : q.calls[i].sas.expiryTime = expiry
            /\ q.resp.body.sasURLPrivate.sas.expiryTime = expiry
            /\ q.resp.body.sasURLPublic.sas.expiryTime = expiry

----------------------------------------------------------------------------
(* C13: in the document database at most one permission token is live for a  *)
(* namespace at any time; the token a request returns is the live one of its *)
(* namespace at the moment it returns; and once a request has returned its   *)
(* token, no token that an earlier request for the same namespace returned   *)
(* is live.                                                                  *)
LiveTokens(ps, user) == {p.token : p \in {x \in ps : x.user = user}}

\* r returns its token in this step
Returns(r) == req[r].pc = "return" /\ req'[r].pc = "done"

\* q has returned a token for the namespace of user
ReturnedFor(q, user) ==
    /\ q.backend = "cosmos" /\ Succeeded(q)
    /\ partitionKey(q.params.owNamespace) = user

C13_OneLiveTokenTheReturnedOne ==
    /\ [](\A p1, p2 \in permissions : p1.user = p2.user => p1.token = p2.token)
    /\ [][\A r \in Reqs :
            Returns(r) =>
                LET user == partitionKey(req[r].params.owNamespace) IN
                /\ LiveTokens(permissions', user) = {req'[r].resp.body.resourceToken}
                /\ \A r2 \in Reqs \ {r} :
                     ReturnedFor(req[r2], user) =>
                         req[r2].resp.body.resourceToken \notin LiveTokens(permissions', user)
         ]_vars

----------------------------------------------------------------------------
(* C14: no document-database request ends with status 500 because of a       *)
(* signal that only the race with another request brings about: user already *)
(* exists on creation, permission already exists on creation, permission not *)
(* found on deletion.                                                        *)
RaceSignals == {"conflict", "notFound"}

C14_RaceSignalsAbsorbed ==
    \A r \in Reqs :
        LET q == req[r] IN
        (/\ q.backend = "cosmos" /\ q.pc = "done" /\ q.calls # <<>>
         /\ q.calls[Len(q.calls)].op \in {"usersCreate", "permissionsCreate", "permissionDelete"}
         /\ q.calls[Len(q.calls)].res \in RaceSignals) =>
            HttpStatus(q.resp) # 500

----------------------------------------------------------------------------
(* C15: in the calls of one request a call that failed is the last one, so a *)
(* container creation that failed otherwise than with already-exists is      *)
(* followed by no token generation; and the creation of each container, the  *)
(* generation of the token of each container and each document-database      *)
(* call is made at most once.                                                *)
FailedResults == {"failed", "conflict", "error"}

C15_NoRetryNoStageAfterFailure ==
    \A r \in Reqs :
        LET q == req[r]
            ns == q.params.owNamespace
        IN
        /\ \A i \in DOMAIN q.calls :
             q.calls[i].res \in FailedResults =>
                 /\ i = Len(q.calls)
                 /\ q.pc = "done"
                 /\ HttpStatus(q.resp) # 200
        /\ (\E i \in CreatesOf(q) : q.calls[i].res = "failed") => SasCallsOf(q) = {}
        /\ \A name \in {Hex(ns), Hex(ns) \o PublicSuffix} :
             /\ Cardinality({i \in CreatesOf(q) : q.calls[i].name = name}) <= 1
             /\ Cardinality({i \in SasCallsOf(q) : q.calls[i].sas.containerName = name}) <= 1
        /\ \A i \in CreatesOf(q) \cup SasCallsOf(q) :
             (IF i \in CreatesOf(q) THEN q.calls[i].name ELSE q.calls[i].sas.containerName)
                 \in {Hex(ns), Hex(ns) \o PublicSuffix}
        /\ \A op \in {"userRead", "usersCreate", "permissionDelete", "permissionsCreate"} :
             CountOp(q, op) <= 1

\* the private container was created, the creation of the public one failed,
\* and the request ended there with a 500
C15_Witness ==
    \E r \in Reqs :
        LET q == req[r] IN
        /\ q.backend = "blob" /\ q.pc = "done"
        /\ Len(q.calls) = 4
        /\ q.calls[3].op = "containerCreate" /\ q.calls[3].res = "created"
        /\ q.calls[4].op = "containerCreate" /\ q.calls[4].res = "failed"
        /\ q.calls[4].name = publicContainerName(q.params.owNamespace)
        /\ SasCallsOf(q) = {}
        /\ HttpStatus(q.resp) = 500

====
